---- MODULE Spec2Model ----
(* Arena of Heroes: the rules engine of src/src/App.jsx as a state machine.     *)
(* Registry, turn, selection, animation queue, pending timer callbacks and the  *)
(* enemy round are state; every click handler, timer callback and effect is an  *)
(* action.  A second specification, SpecReach, exercises reachable() as a pure  *)
(* function on bounded inputs.                                                  *)
EXTENDS Integers, Sequences, FiniteSets, TLC

\* --------------------------- Config ---------------------------
GRID_COLS == 10
GRID_ROWS == 8

NULL == "null"

\* --------------------------- Bounds of the model ---------------------------
\* accepted player commands (move / attack / heal / step-then-attack) per run
MaxCommands == 6
\* largest movement budget drawn for reachable() under SpecReach
MaxBudget == 4

\* accepted player commands in the runs that start late in a battle
MaxLate == 2

\* --------------------------- Utility helpers ---------------------------
\* key(x, y) is the string "x,y"; it is injective on integer pairs and is only
\* ever parsed back with split(",").map(Number), so the pair itself is the key.
key(x, y) == <<x, y>>

abs(n) == IF n < 0 THEN -n ELSE n

\* manhattan takes anything with an x and a y
manhattan(a, b) == abs(a.x - b.x) + abs(a.y - b.y)

cellDist(c, d) == abs(c[1] - d[1]) + abs(c[2] - d[2])

\* a copy-paste slip: the fourth neighbour repeats the third
neighbors4_dup(p) ==
  << <<p[1] + 1, p[2]>>, <<p[1] - 1, p[2]>>, <<p[1], p[2] + 1>>, <<p[1], p[2] + 1>> >>

neighbors4(p) ==
  << <<p[1] + 1, p[2]>>, <<p[1] - 1, p[2]>>, <<p[1], p[2] + 1>>, <<p[1], p[2] - 1>> >>

\* Math.floor(Math.random() * (max - min + 2)) + min
randInt_over(min, max) == min .. max + 1

\* Math.floor(Math.random() * (max - min + 1)) + min : any integer of min..max
randInt(min, max) == min .. max

InBounds(c) == c[1] >= 0 /\ c[2] >= 0 /\ c[1] < GRID_COLS /\ c[2] < GRID_ROWS

Cells == (0 .. GRID_COLS - 1) \X (0 .. GRID_ROWS - 1)

\* layerNext without the occupied.has(nk) test
layerNext_noOcc(layer, seen, occupied) ==
  LET m       == 4 * Len(layer)
      cand    == [i \in 1 .. m |-> neighbors4(layer[((i - 1) \div 4) + 1])[((i - 1) % 4) + 1]]
      pushed(i) ==
        LET n == cand[i] IN
        ~(n[1] < 0 \/ n[2] < 0 \/ n[1] >= GRID_COLS \/ n[2] >= GRID_ROWS
          \/ n \in seen \/ \E j \in 1 .. i - 1 : cand[j] = n)
      idx     == SelectSeq([i \in 1 .. m |-> i], pushed)
  IN [k \in 1 .. Len(idx) |-> cand[idx[k]]]

\* The frontier of reachable() is a FIFO queue, so it holds the cells of distance
\* d before those of distance d + 1: the while-loop is taken one distance at a
\* time.  layerNext is the for-loop over neighbors4 run for every cell of one
\* layer in turn: a neighbour is pushed unless it is out of bounds, seen (in an
\* earlier layer, or pushed earlier in this pass) or occupied.
layerNext(layer, seen, occupied) ==
  LET m       == 4 * Len(layer)
      cand    == [i \in 1 .. m |-> neighbors4(layer[((i - 1) \div 4) + 1])[((i - 1) % 4) + 1]]
      pushed(i) ==
        LET n == cand[i] IN
        ~(n[1] < 0 \/ n[2] < 0 \/ n[1] >= GRID_COLS \/ n[2] >= GRID_ROWS
          \/ n \in seen \/ n \in occupied \/ \E j \in 1 .. i - 1 : cand[j] = n)
      idx     == SelectSeq([i \in 1 .. m |-> i], pushed)
  IN [k \in 1 .. Len(idx) |-> cand[idx[k]]]

\* layer: the cells of distance d, in queue order; out: the Set in insertion order
RECURSIVE bfs(_, _, _, _, _, _)
bfs(layer, d, seen, out, maxSteps, occupied) ==
  LET out1 == IF d > 0 THEN out \o layer ELSE out IN
  IF layer = <<>> \/ d = maxSteps THEN out1
  ELSE LET nx == layerNext(layer, seen, occupied)
       IN bfs(nx, d + 1, seen \cup {nx[k] : k \in 1 .. Len(nx)}, out1, maxSteps, occupied)

\* the search giving up one step early
reachable_short(start, maxSteps, occupied) ==
  bfs(<<start>>, 0, {start}, <<>>, maxSteps - 1, occupied)

\* BFS for movement range; the result is the returned Set as the sequence of
\* its keys in insertion (= iteration) order.
reachable(start, maxSteps, occupied) ==
  bfs(<<start>>, 0, {start}, <<>>, maxSteps, occupied)

Range(s) == {s[i] : i \in 1 .. Len(s)}

\* --------------------------- Main Game ---------------------------
PlayerIds == {"hero", "knight", "rider", "mage", "archer"}
EnemyIds == {"e0", "e1", "e2", "e3"}
Ids == PlayerIds \cup EnemyIds

\* order of the array returned by initialUnits(); map() and filter() keep it
Order == <<"hero", "knight", "rider", "mage", "archer", "e0", "e1", "e2", "e3">>

\* the roster: the fields of a unit that no handler ever writes ...
team == [id \in Ids |-> IF id \in PlayerIds THEN "player" ELSE "enemy"]

classType ==
  [id \in Ids |-> IF id \in {"mage", "archer", "e3"} THEN "ranged" ELSE "melee"]

maxHp ==
  [hero |-> 20, knight |-> 10, rider |-> 10, mage |-> 10, archer |-> 10,
   e0 |-> 20, e1 |-> 4, e2 |-> 15, e3 |-> 15]

atk ==
  [hero |-> 10, knight |-> 4, rider |-> 4, mage |-> 4, archer |-> 3,
   e0 |-> 10, e1 |-> 3, e2 |-> 10, e3 |-> 3]

move ==
  [hero |-> 1, knight |-> 3, rider |-> 8, mage |-> 2, archer |-> 3,
   e0 |-> 1, e1 |-> 3, e2 |-> 1, e3 |-> 1]

\* only these three units carry an attackRange field
attackRange == [mage |-> 8, archer |-> 3, e3 |-> 4]

\* attacker.attackRange ?? 1
rangeOf(id) == IF id \in DOMAIN attackRange THEN attackRange[id] ELSE 1

\* ... and the fields the handlers write
initialUnits ==
  LET at(px, py, h) == [x |-> px, y |-> py, hp |-> h, hasActed |-> FALSE, dying |-> FALSE]
  IN [hero   |-> at(0, 4, 20),
      knight |-> at(1, 5, 10),
      rider  |-> at(1, 3, 10),
      mage   |-> at(0, 2, 10),
      archer |-> at(0, 6, 10),
      e0     |-> at(GRID_COLS - 1, 3, 20),
      e1     |-> at(GRID_COLS - 2, 2, 4),
      e2     |-> at(GRID_COLS - 2, 4, 15),
      e3     |-> at(GRID_COLS - 1, 5, 15)]

\* the tiles and the units the player clicks in the explored runs
TileInputs == {<<0, 3>>, <<0, 7>>, <<4, 5>>, <<7, 4>>}

UnitInputs == PlayerIds \cup {"e1", "e2"}

VARIABLES
  units,          \* the registry: id -> [x, y, hp, hasActed, dying], present ids only
  turn,           \* NULL | "player" | "enemy"
  selectedId,     \* NULL | id
  log,            \* NULL | "Failure!" | "Victory!"
  intro,          \* the intro cinematic is running
  canStartIntro,  \* assets and audio are ready
  queue,          \* the animation queue: items [type, unitId]
  timers,         \* pending setTimeout callbacks (a bag)
  ai,             \* doEnemyRound: enemyAIRunningRef, its locals and its await point
  acts,           \* per unit: actions committed since its hasActed was last reset
  cmds,           \* accepted player commands so far
  last,           \* the resolution of the attack or heal being played: who, how much,
                  \* hp before and after
  rq,             \* SpecReach, SpecPath: the arguments of a call of reachable() or of
                  \* the path loop, and whether it returned
  rres,           \* SpecReach, SpecPath: what it returned
  aq              \* SpecQueue: useAnimationQueue's state, its renders, effects and timers

vars ==
  <<units, turn, selectedId, log, intro, canStartIntro, queue, timers, ai, acts,
    cmds, last, rq, rres, aq>>

gameVars ==
  <<units, turn, selectedId, log, intro, canStartIntro, queue, timers, ai, acts, cmds,
    last>>

\* ---- registry views ----
Present(us) == DOMAIN us

\* the array in registry order
unitSeq(us) == SelectSeq(Order, LAMBDA id : id \in DOMAIN us)

posOf(us, id) == key(us[id].x, us[id].y)

\* occupied: the cell of every unit of the registry
occupied(us) == {posOf(us, id) : id \in DOMAIN us}

\* selected = selectedId ? unitMap.get(selectedId) : null
hasSelected == selectedId # NULL /\ selectedId \in DOMAIN units

isBusy == queue # <<>>

\* the reach effect computing on an empty board
reach_noBlock ==
  IF hasSelected /\ turn = "player" /\ ~units[selectedId].hasActed
  THEN reachable(posOf(units, selectedId), move[selectedId], {})
  ELSE <<>>

\* the reach effect: reach is recomputed whenever selectedId, units or turn change
reach ==
  IF hasSelected /\ turn = "player" /\ ~units[selectedId].hasActed
  THEN reachable(posOf(units, selectedId), move[selectedId],
                 occupied(units) \ {posOf(units, selectedId)})
  ELSE <<>>

\* the effect reading the result off the bodies on the board, with no latch
logAfter_bodies(us, lg) ==
  LET players == {id \in DOMAIN us : team[id] = "player"}
      enemies == {id \in DOMAIN us : team[id] = "enemy"}
  IN IF players # {} /\ \A id \in players : us[id].hp <= 0 THEN "Failure!"
     ELSE IF enemies # {} /\ \A id \in enemies : us[id].hp <= 0 THEN "Victory!"
     ELSE NULL

\* the effect counting every unit still in the registry as alive
logAfter_present(us, lg) ==
  LET playersAlive == \E id \in DOMAIN us : team[id] = "player"
      enemiesAlive == \E id \in DOMAIN us : team[id] = "enemy"
  IN IF ~playersAlive /\ lg = NULL THEN "Failure!"
     ELSE IF ~enemiesAlive /\ lg = NULL THEN "Victory!"
     ELSE lg

\* the victory/defeat effect, run after every change of units or log
logAfter(us, lg) ==
  LET playersAlive == \E id \in DOMAIN us : team[id] = "player" /\ us[id].hp > 0
      enemiesAlive == \E id \in DOMAIN us : team[id] = "enemy" /\ us[id].hp > 0
  IN IF ~playersAlive /\ lg = NULL THEN "Failure!"
     ELSE IF ~enemiesAlive /\ lg = NULL THEN "Victory!"
     ELSE lg

\* ---- timers ----
EmptyBag == <<>>
NoPath == <<>>

Timer(k, a, b, n, path) == [kind |-> k, a |-> a, b |-> b, n |-> n, path |-> path]

BagAdd(B, e) ==
  IF e \in DOMAIN B THEN [B EXCEPT ![e] = B[e] + 1]
  ELSE [x \in DOMAIN B \cup {e} |-> IF x = e THEN 1 ELSE B[x]]

BagRemove(B, e) ==
  IF B[e] > 1 THEN [B EXCEPT ![e] = B[e] - 1]
  ELSE IF DOMAIN B = {e} THEN EmptyBag
  ELSE [x \in DOMAIN B \ {e} |-> B[x]]

Pending == DOMAIN timers

\* no reachable() call under way
noCall == [start |-> <<0, 0>>, maxSteps |-> 0, occupied |-> {}, done |-> FALSE]

Resolution(k, a, b, n, before, after) ==
  [kind |-> k, a |-> a, b |-> b, n |-> n, before |-> before, after |-> after]

noResolution == Resolution("none", NULL, NULL, 0, 0, 0)

aiIdle ==
  [running |-> FALSE, phase |-> "idle", i |-> 0, enemies |-> <<>>,
   stateUnits |-> <<>>, steps |-> <<>>, k |-> 0]

\* ---- useAnimationQueue at the grain of its renders, effects and timers ----
\* the most items enqueued in one run of the queue
MaxItems == 4

\* the units and animation types of the items enqueued in these runs
QUnits == {"knight", "e1"}

QTypes == {"move", "attack"}

\* useState([]) and useState({}): nothing queued, nothing animated, no update pending,
\* no effect to flush, no playback timer; busy is the isBusy of the last render
noRunner ==
  [q |-> <<>>, anim |-> [u \in QUnits |-> "idle"], upd |-> <<>>, stale |-> FALSE,
   runs |-> {}, busy |-> FALSE, next |-> 1, removed |-> <<>>, played |-> <<>>]

\* the queue after the pending setQueue updaters have run on it, in order
RECURSIVE queueAfter(_, _)
queueAfter(q, upd) ==
  IF upd = <<>> THEN q
  ELSE queueAfter(IF Head(upd).op = "append" THEN Append(q, Head(upd).item)
                  ELSE IF Head(upd).op = "slice" /\ q # <<>> THEN Tail(q)
                  ELSE q,
                  Tail(upd))

\* animState after the pending setAnimState updaters have run on it, in order
RECURSIVE animAfter(_, _)
animAfter(anim, upd) ==
  IF upd = <<>> THEN anim
  ELSE animAfter(IF Head(upd).op = "anim"
                 THEN [anim EXCEPT ![Head(upd).unitId] = Head(upd).type]
                 ELSE anim,
                 Tail(upd))

\* what each q.slice(1) among the pending updaters drops: the serial of the head it
\* finds (0 when it finds the queue empty), paired with the serial its run had played
RECURSIVE dropped(_, _)
dropped(q, upd) ==
  IF upd = <<>> THEN <<>>
  ELSE LET u == Head(upd)
           q2 == queueAfter(q, <<u>>)
       IN  IF u.op = "slice"
           THEN <<(<<IF q = <<>> THEN 0 ELSE q[1].n, u.n>>)>> \o dropped(q2, Tail(upd))
           ELSE dropped(q2, Tail(upd))

Init ==
  /\ units = initialUnits
  /\ turn = NULL
  /\ selectedId = NULL
  /\ log = NULL
  /\ intro = FALSE
  /\ canStartIntro = FALSE
  /\ queue = <<>>
  /\ timers = EmptyBag
  /\ ai = aiIdle
  /\ acts = [id \in Ids |-> 0]
  /\ cmds = 0
  /\ last = noResolution
  /\ rq = noCall
  /\ rres = <<>>
  /\ aq = noRunner


\* ---- pieces of the handlers ----
alive(us, id) == id \in DOMAIN us /\ us[id].hp > 0

\* a step that changes both coordinates while both differ
nextHop_diag(c, t) ==
  <<IF c[1] < t[1] THEN c[1] + 1 ELSE IF c[1] > t[1] THEN c[1] - 1 ELSE c[1],
    IF c[2] < t[2] THEN c[2] + 1 ELSE IF c[2] > t[2] THEN c[2] - 1 ELSE c[2]>>

\* one pass of the while-loop: if (cx < x) cx++; else if (cx > x) cx--;
\* else if (cy < y) cy++; else if (cy > y) cy--
nextHop(c, t) ==
  IF c[1] < t[1] THEN <<c[1] + 1, c[2]>>
  ELSE IF c[1] > t[1] THEN <<c[1] - 1, c[2]>>
  ELSE IF c[2] < t[2] THEN <<c[1], c[2] + 1>>
  ELSE <<c[1], c[2] - 1>>

\* the naive Manhattan path of onTileClick and doEnemyRound: x first, then y
RECURSIVE stepPath(_, _)
stepPath(c, t) ==
  IF c = t THEN <<>> ELSE <<nextHop(c, t)>> \o stepPath(nextHop(c, t), t)

\* the hop marking the action consumed on every step
hopUnits_early(us, id, p, final) ==
  IF id \in DOMAIN us
  THEN [us EXCEPT ![id].x = p[1], ![id].y = p[2], ![id].hasActed = TRUE]
  ELSE us

\* setUnits(prev => ...) of a hop: position, and hasActed on the final hop
hopUnits(us, id, p, final) ==
  IF id \in DOMAIN us
  THEN [us EXCEPT ![id].x = p[1], ![id].y = p[2],
                  ![id].hasActed = IF final THEN TRUE ELSE @]
  ELSE us

\* tryAttack: the range check on the records handed in
tryAttackOk(a, pa, pt) == cellDist(pa, pt) <= rangeOf(a)

\* randInt(0, attacker.atk ?? 0)
damageDraw(a) == randInt(0, atk[a])

\* the impact callback without after[ti].dying = true
impactUnits_noDying(us, a, t, damage) ==
  IF t \notin DOMAIN us THEN us
  ELSE LET h   == us[t].hp - damage
           us1 == [us EXCEPT ![t].hp = IF h <= 0 THEN 0 ELSE h]
       IN IF a \in DOMAIN us1 THEN [us1 EXCEPT ![a].hasActed = TRUE] ELSE us1

\* the impact callback without after[ti].hp = 0
impactUnits_noClamp(us, a, t, damage) ==
  IF t \notin DOMAIN us THEN us
  ELSE LET h   == us[t].hp - damage
           us1 == IF h <= 0
                  THEN [us EXCEPT ![t].hp = h, ![t].dying = TRUE]
                  ELSE [us EXCEPT ![t].hp = h]
       IN IF a \in DOMAIN us1 THEN [us1 EXCEPT ![a].hasActed = TRUE] ELSE us1

\* the impact callback of tryAttack: setUnits(prev => ...)
impactUnits(us, a, t, damage) ==
  IF t \notin DOMAIN us THEN us
  ELSE LET h   == us[t].hp - damage
           us1 == IF h <= 0
                  THEN [us EXCEPT ![t].hp = 0, ![t].dying = TRUE]
                  ELSE [us EXCEPT ![t].hp = h]
       IN IF a \in DOMAIN us1 THEN [us1 EXCEPT ![a].hasActed = TRUE] ELSE us1

\* a removal callback that filters the target out whatever its hp
removeUnits_any(us, t) == [id \in DOMAIN us \ {t} |-> us[id]]

\* a removal callback that filters nothing out
removeUnits_keep(us, t) == us

\* the corpse removal callback: prev.filter(u => !(u.id === target.id && u.hp <= 0))
removeUnits(us, t) ==
  IF t \in DOMAIN us /\ us[t].hp <= 0
  THEN [id \in DOMAIN us \ {t} |-> us[id]]
  ELSE us

\* healer.heal ?? healer.atk ?? 0 : no unit of the roster has a heal field
maxHeal(h) == atk[h]

healDraw(h) == randInt(0, maxHeal(h))

\* the heal without Math.min(..., maxHp)
healHp_noCap(hp, healAmount, mx) == hp + healAmount

\* Math.min(hp + healAmount, maxHp)
healHp(hp, healAmount, mx) == IF hp + healAmount < mx THEN hp + healAmount ELSE mx

\* the commit callback without after[hi].hasActed = true
healUnits_noActed(us, h, t, healAmount) ==
  IF t \notin DOMAIN us THEN us
  ELSE [us EXCEPT ![t].hp = healHp(us[t].hp, healAmount, maxHp[t])]

\* the commit callback of tryHeal
healUnits(us, h, t, healAmount) ==
  IF t \notin DOMAIN us THEN us
  ELSE LET us1 == [us EXCEPT ![t].hp = healHp(us[t].hp, healAmount, maxHp[t])]
       IN IF h \in DOMAIN us1 THEN [us1 EXCEPT ![h].hasActed = TRUE] ELSE us1

isMeleeUnit(id) == classType[id] = "melee"

canAttackEnemy(e) ==
  /\ hasSelected
  /\ turn = "player"
  /\ team[selectedId] = "player" /\ ~units[selectedId].hasActed
  /\ team[e] = "enemy"
  /\ units[e].hp > 0
  /\ manhattan(units[selectedId], units[e]) <= rangeOf(selectedId)

canHealAlly(ally) ==
  /\ hasSelected
  /\ turn = "player"
  /\ team[selectedId] = "player" /\ ~units[selectedId].hasActed
  /\ selectedId = "mage"
  /\ team[ally] = "player" /\ ally # selectedId

\* tryHeal's own checks
tryHealOk(h, t) ==
  /\ h = "mage" /\ ~units[h].hasActed
  /\ team[t] = "player" /\ t # h

\* every reachable tile taken for a candidate
candidateTiles_any(u) == reach

\* reachable tiles that put the selected unit next to u, in reach order
candidateTiles(u) ==
  SelectSeq(reach, LAMBDA t : cellDist(t, posOf(units, u)) <= 1)

\* candidateTiles.reduce(...): shortest move, then least distance to the enemy,
\* the earlier tile winning a tie
RECURSIVE bestTile(_, _, _, _, _)
bestTile(cands, i, best, from, to) ==
  IF i > Len(cands) THEN best
  ELSE LET t == cands[i] IN
       IF cellDist(t, from) < cellDist(best, from)
       THEN bestTile(cands, i + 1, t, from, to)
       ELSE IF cellDist(t, from) = cellDist(best, from)
               /\ cellDist(t, to) < cellDist(best, to)
            THEN bestTile(cands, i + 1, t, from, to)
       ELSE bestTile(cands, i + 1, best, from, to)

Item(type, id) == [type |-> type, unitId |-> id]

\* n move items of one unit
RECURSIVE enqueueMoves(_, _, _)
enqueueMoves(q, id, n) ==
  IF n = 0 THEN q ELSE enqueueMoves(Append(q, Item("move", id)), id, n - 1)

moveItems(q, id) == Len(SelectSeq(q, LAMBDA it : it.type = "move" /\ it.unitId = id))

bump(a, id) == [a EXCEPT ![id] = IF @ < 2 THEN @ + 1 ELSE @]

\* onTileClick without the reach check
tileAccepted_anyTile(tile) ==
  /\ ~intro
  /\ turn = "player" /\ hasSelected /\ ~units[selectedId].hasActed /\ ~isBusy

\* --------------------------- Player commands ---------------------------
\* the guard of onTileClick: the command is accepted
tileAccepted(tile) ==
  /\ ~intro
  /\ turn = "player" /\ hasSelected /\ ~units[selectedId].hasActed /\ ~isBusy
  /\ tile \in Range(reach)

onTileClick(tile) ==
  IF ~tileAccepted(tile) THEN UNCHANGED vars
  ELSE LET steps == stepPath(posOf(units, selectedId), tile) IN
       /\ queue' = enqueueMoves(queue, selectedId, Len(steps))
       /\ timers' = BagAdd(timers, Timer("walk", selectedId, NULL, 0, steps))
       /\ acts' = bump(acts, selectedId)
       /\ cmds' = cmds + 1
       /\ UNCHANGED <<units, turn, selectedId, log, intro, canStartIntro, ai, last, rq,
                      rres, aq>>

\* the heal branch of onUnitClick
clickHeals(u) == team[u] = "player" /\ canHealAlly(u) /\ tryHealOk(selectedId, u)

\* the immediate attack branch
clickAttacks(u) ==
  /\ team[u] = "enemy" /\ canAttackEnemy(u)
  /\ tryAttackOk(selectedId, posOf(units, selectedId), posOf(units, u))

\* the melee step-then-attack branch
clickSteps(u) ==
  /\ team[u] = "enemy" /\ ~canAttackEnemy(u)
  /\ hasSelected /\ isMeleeUnit(selectedId)
  /\ turn = "player" /\ team[selectedId] = "player" /\ ~units[selectedId].hasActed
  /\ candidateTiles(u) # <<>>

\* the selection branch
clickSelects(u) == team[u] = "player" /\ ~units[u].hasActed

\* onUnitClick without the isBusy return
clickHeard_noBusy(u) ==
  /\ ~intro
  /\ ~(units[u].hp <= 0 \/ units[u].dying)
  /\ turn = "player"

\* onUnitClick gets past its first three returns
clickHeard(u) ==
  /\ ~intro
  /\ ~(units[u].hp <= 0 \/ units[u].dying)
  /\ turn = "player" /\ ~isBusy

\* onUnitClick reaches one of its four branches; otherwise it returns
clickChanges(u) ==
  /\ clickHeard(u)
  /\ \/ team[u] = "player" /\ canHealAlly(u)
     \/ team[u] = "enemy" /\ canAttackEnemy(u)
     \/ clickSteps(u)
     \/ clickSelects(u)

onUnitClick(u) ==
  IF ~clickChanges(u) THEN UNCHANGED vars
  ELSE IF team[u] = "player" /\ canHealAlly(u) THEN
       /\ IF tryHealOk(selectedId, u)
          THEN /\ queue' = Append(queue, Item("heal", selectedId))
               /\ timers' = BagAdd(timers, Timer("heal", selectedId, u, 0, NoPath))
               /\ acts' = bump(acts, selectedId)
               /\ cmds' = cmds + 1
          ELSE UNCHANGED <<queue, timers, acts, cmds>>
       /\ selectedId' = NULL
       /\ UNCHANGED <<units, turn, log, intro, canStartIntro, ai, last, rq, rres, aq>>
  ELSE IF team[u] = "enemy" /\ canAttackEnemy(u) THEN
       /\ IF tryAttackOk(selectedId, posOf(units, selectedId), posOf(units, u))
          THEN \E damage \in damageDraw(selectedId) :
               /\ queue' = Append(queue, Item("attack", selectedId))
               /\ timers' = BagAdd(timers, Timer("impact", selectedId, u, damage, NoPath))
               /\ acts' = bump(acts, selectedId)
               /\ cmds' = cmds + 1
          ELSE UNCHANGED <<queue, timers, acts, cmds>>
       /\ selectedId' = NULL
       /\ UNCHANGED <<units, turn, log, intro, canStartIntro, ai, last, rq, rres, aq>>
  ELSE IF clickSteps(u) THEN
       LET from  == posOf(units, selectedId)
           cands == candidateTiles(u)
           best  == bestTile(cands, 2, cands[1], from, posOf(units, u))
           moved == hopUnits(units, selectedId, best, FALSE)
           q1    == Append(queue, Item("move", selectedId))
       IN /\ units' = moved
          /\ log' = logAfter(moved, log)
          /\ IF tryAttackOk(selectedId, best, posOf(units, u))
             THEN \E damage \in damageDraw(selectedId) :
                  /\ queue' = Append(q1, Item("attack", selectedId))
                  /\ timers' = BagAdd(timers, Timer("impact", selectedId, u, damage, NoPath))
             ELSE /\ queue' = q1
                  /\ timers' = timers
          /\ acts' = bump(acts, selectedId)
          /\ cmds' = cmds + 1
          /\ selectedId' = NULL
          /\ UNCHANGED <<turn, intro, canStartIntro, ai, last, rq, rres, aq>>
  ELSE /\ selectedId' = IF u = selectedId THEN NULL ELSE u
       /\ UNCHANGED <<units, turn, log, intro, canStartIntro, queue, timers, ai, acts,
                      cmds, last, rq, rres, aq>>

allPlayerActed == \A id \in DOMAIN units : team[id] = "player" => units[id].hasActed

\* the disabled attribute of the End-the-turn button
endTurnDisabled == intro \/ turn # "player" \/ ~allPlayerActed

\* the handler flips the turn
endTurnAccepted == ~intro /\ turn = "player"

\* the end of the player's turn resetting hasActed on both sides
endTurnUnits_all(us) == [id \in DOMAIN us |-> [us[id] EXCEPT !.hasActed = FALSE]]

\* prev.map(u => u.team === "enemy" ? { ...u, hasActed: false } : u)
endTurnUnits(us) ==
  [id \in DOMAIN us |-> IF team[id] = "enemy" THEN [us[id] EXCEPT !.hasActed = FALSE]
                        ELSE us[id]]

endPlayerTurn ==
  IF ~endTurnAccepted THEN UNCHANGED vars
  ELSE /\ selectedId' = NULL
       /\ units' = endTurnUnits(units)
       /\ log' = logAfter(units', log)
       /\ turn' = "enemy"
       /\ acts' = [id \in Ids |-> IF team[id] = "enemy" THEN 0 ELSE acts[id]]
       /\ UNCHANGED <<intro, canStartIntro, queue, timers, ai, cmds, last, rq, rres, aq>>

\* a click on the button, which the browser delivers only while it is enabled
EndTurnClick == ~endTurnDisabled /\ endPlayerTurn

\* --------------------------- Animation queue ---------------------------
\* The runner restarts the head's playback timer on every change of the queue, so
\* the head ends no sooner than its duration (>= 320 ms) after the last enqueue:
\*  - after the impact (100 ms) or heal commit (100 ms) of the call that enqueued;
\*  - for the j-th hop item of a player move, after the callback of hop j+1 (or,
\*    for the last item, after the deselect callback), all set at the click;
\*  - after the wait(320) of an enemy hop, which ends before its own item does.
headMayEnd ==
  /\ queue # <<>>
  /\ \A t \in Pending : t.kind \notin {"impact", "heal"}
  /\ ai.phase # "hop"
  /\ LET h == Head(queue) IN
     h.type = "move" =>
       \A w \in Pending :
         (w.kind = "walk" /\ w.a = h.unitId /\ w.n <= Len(w.path)) =>
           w.n >= (Len(w.path) - moveItems(queue, h.unitId) + 1) + 1

\* setQueue(q => q.slice(1)) when the head's playback ends
Dequeue ==
  /\ headMayEnd
  /\ queue' = Tail(queue)
  /\ last' = IF Head(queue).type \in {"attack", "heal"} THEN noResolution ELSE last
  /\ UNCHANGED <<units, turn, selectedId, log, intro, canStartIntro, timers, ai, acts,
                 cmds, rq, rres, aq>>

\* --------------------------- Timer callbacks ---------------------------
\* the impact callback of tryAttack, which also sets the corpse removal timer
FireImpact(t) ==
  /\ t \in Pending /\ t.kind = "impact"
  /\ units' = impactUnits(units, t.a, t.b, t.n)
  /\ log' = logAfter(units', log)
  /\ timers' = BagAdd(BagRemove(timers, t), Timer("remove", NULL, t.b, 0, NoPath))
  /\ last' = IF t.b \in DOMAIN units
             THEN Resolution("attack", t.a, t.b, t.n, units[t.b].hp, units'[t.b].hp)
             ELSE last
  /\ UNCHANGED <<turn, selectedId, intro, canStartIntro, queue, ai, acts, cmds, rq, rres, aq>>

\* the corpse removal callback, DEATH_REMOVE_MS after the impact
FireRemove(t) ==
  /\ t \in Pending /\ t.kind = "remove"
  /\ units' = removeUnits(units, t.b)
  /\ log' = logAfter(units', log)
  /\ timers' = BagRemove(timers, t)
  /\ UNCHANGED <<turn, selectedId, intro, canStartIntro, queue, ai, acts, cmds, last, rq,
                 rres, aq>>

\* the commit callback of tryHeal; the amount is drawn inside it
FireHeal(t) ==
  /\ t \in Pending /\ t.kind = "heal"
  /\ \E healAmount \in healDraw(t.a) :
       /\ units' = healUnits(units, t.a, t.b, healAmount)
       /\ last' = IF t.b \in DOMAIN units
                  THEN Resolution("heal", t.a, t.b, healAmount, units[t.b].hp,
                                  units'[t.b].hp)
                  ELSE last
  /\ log' = logAfter(units', log)
  /\ timers' = BagRemove(timers, t)
  /\ UNCHANGED <<turn, selectedId, intro, canStartIntro, queue, ai, acts, cmds, rq, rres, aq>>

\* The callbacks of one onTileClick, in the order of their delays: hop idx at
\* idx * 320 ms, the deselect at n * 320 ms, the safety snap 10 ms later.  Item
\* j - 1 of the queue has ended by the time hop j + 1 is due (one hop later).
FireWalk(w) ==
  /\ w \in Pending /\ w.kind = "walk"
  /\ LET n == Len(w.path) IN
     IF w.n < n THEN
       /\ n - moveItems(queue, w.a) >= w.n - 1
       /\ units' = hopUnits(units, w.a, w.path[w.n + 1], w.n + 1 = n)
       /\ log' = logAfter(units', log)
       /\ timers' = BagAdd(BagRemove(timers, w), [w EXCEPT !.n = w.n + 1])
       /\ UNCHANGED selectedId
     ELSE IF w.n = n THEN
       /\ n - moveItems(queue, w.a) >= w.n - 1
       /\ selectedId' = NULL
       /\ timers' = BagAdd(BagRemove(timers, w), [w EXCEPT !.n = w.n + 1])
       /\ UNCHANGED <<units, log>>
     ELSE
       /\ units' = hopUnits(units, w.a, w.path[n], TRUE)
       /\ log' = logAfter(units', log)
       /\ timers' = BagRemove(timers, w)
       /\ UNCHANGED selectedId
  /\ UNCHANGED <<turn, intro, canStartIntro, queue, ai, acts, cmds, last, rq, rres, aq>>

\* --------------------------- Enemy round ---------------------------
\* the guard without its enemyAIRunningRef test
aiStartable_again == turn = "enemy" /\ ~isBusy /\ log = NULL

\* the guard without its isBusy test
aiStartable_busy == turn = "enemy" /\ log = NULL /\ ~ai.running

\* the guard of the enemy AI effect
aiStartable == turn = "enemy" /\ ~isBusy /\ log = NULL /\ ~ai.running

filterTeam(us, tm) == SelectSeq(unitSeq(us), LAMBDA id : team[id] = tm)

\* stateUnits.find(u => u.team === "player" && u.hp > 0 && manhattan(e, u) <= eRange)
inRangeTargets(m, e) ==
  SelectSeq(unitSeq(m), LAMBDA id :
    team[id] = "player" /\ m[id].hp > 0 /\ manhattan(m[e], m[id]) <= rangeOf(e))

\* stateUnits.filter(u => u.team === "player" && u.hp > 0)
livingTargets(m) ==
  SelectSeq(unitSeq(m), LAMBDA id : team[id] = "player" /\ m[id].hp > 0)

\* targets.reduce((a, b) => manhattan(e, a) < manhattan(e, b) ? a : b)
RECURSIVE nearestOf(_, _, _, _, _)
nearestOf(m, e, ts, i, a) ==
  IF i > Len(ts) THEN a
  ELSE nearestOf(m, e, ts, i + 1,
                 IF manhattan(m[e], m[a]) < manhattan(m[e], m[ts[i]]) THEN a ELSE ts[i])

\* r.forEach(...): the first tile, in the order of r, of least distance to nearest
RECURSIVE bestStep(_, _, _, _, _)
bestStep(r, i, best, bestD, to) ==
  IF i > Len(r) THEN best
  ELSE IF cellDist(r[i], to) < bestD
       THEN bestStep(r, i + 1, r[i], cellDist(r[i], to), to)
       ELSE bestStep(r, i + 1, best, bestD, to)

\* the tile enemy e moves to, from the mirror m
enemyBest(m, e) ==
  LET ts      == livingTargets(m)
      nearest == nearestOf(m, e, ts, 2, ts[1])
      occ     == occupied(m) \ {posOf(m, e)}
      r       == reachable(posOf(m, e), move[e], occ)
  IN bestStep(r, 1, posOf(m, e), manhattan(m[e], m[nearest]), posOf(m, nearest))

\* first index >= i of an enemy still in the mirror (0: the for-loop is over)
RECURSIVE nextEnemy(_, _, _)
nextEnemy(enemies, m, i) ==
  IF i > Len(enemies) THEN 0
  ELSE IF enemies[i] \in DOMAIN m THEN i
  ELSE nextEnemy(enemies, m, i + 1)

\* the end of the round without the hasActed reset
endRoundUnits_keep(us) == us

\* prev.map(u => u.team === "player" ? { ...u, hasActed: false } : u)
endRoundUnits(us) ==
  [id \in DOMAIN us |-> IF team[id] = "player" THEN [us[id] EXCEPT !.hasActed = FALSE]
                        ELSE us[id]]

\* End enemy turn => reset player hasActed, setTurn("player"), finally
aiEndRound ==
  /\ units' = endRoundUnits(units)
  /\ log' = logAfter(units', log)
  /\ turn' = "player"
  /\ ai' = aiIdle
  /\ acts' = [id \in Ids |-> IF team[id] = "player" THEN 0 ELSE acts[id]]
  /\ UNCHANGED <<queue, timers>>

\* doEnemyRound from the head of its for-loop at index i up to its next await
aiRun(i, enemies, m) ==
  LET j == nextEnemy(enemies, m, i) IN
  IF j = 0 THEN aiEndRound
  ELSE LET e    == enemies[j]
           adj  == inRangeTargets(m, e)
           here == [running |-> TRUE, phase |-> "rest", i |-> j, enemies |-> enemies,
                    stateUnits |-> m, steps |-> <<>>, k |-> 0]
       IN IF adj # <<>> /\ tryAttackOk(e, posOf(m, e), posOf(m, adj[1]))
          THEN \E damage \in damageDraw(e) :
               /\ queue' = Append(queue, Item("attack", e))
               /\ timers' = BagAdd(timers, Timer("impact", e, adj[1], damage, NoPath))
               /\ ai' = here
               /\ acts' = bump(acts, e)
               /\ UNCHANGED <<units, log, turn>>
          ELSE IF livingTargets(m) = <<>> THEN aiEndRound
          ELSE LET best == enemyBest(m, e) IN
               IF best # posOf(m, e)
               THEN /\ queue' = Append(queue, Item("move", e))
                    /\ ai' = [here EXCEPT !.phase = "hop", !.k = 1,
                                          !.steps = stepPath(posOf(m, e), best)]
                    /\ acts' = bump(acts, e)
                    /\ UNCHANGED <<units, log, turn, timers>>
               ELSE /\ ai' = here
                    /\ UNCHANGED <<units, log, turn, queue, timers, acts>>

\* the effect fires: doEnemyRound runs up to its first await
AIStart ==
  /\ aiStartable
  /\ aiRun(1, filterTeam(units, "enemy"), units)
  /\ UNCHANGED <<selectedId, intro, canStartIntro, cmds, last, rq, rres, aq>>

\* the mirror left as it was after a move
mirrorAfter_stale(m, e, p) == m

\* stateUnits.map(u => u.id === e.id ? { ...u, x: best.x, y: best.y } : u)
mirrorAfter(m, e, p) ==
  IF e \in DOMAIN m THEN [m EXCEPT ![e].x = p[1], ![e].y = p[2]] ELSE m

\* wait(MOVE_STEP_MS) of hop k is over: the hop, then either the next enqueue or,
\* after the last hop, the safety snap and the update of the mirror
AIHop ==
  /\ ai.running /\ ai.phase = "hop"
  /\ LET e == ai.enemies[ai.i]
         n == Len(ai.steps)
         p == ai.steps[ai.k]
     IN /\ units' = hopUnits(units, e, p, ai.k = n)
        /\ log' = logAfter(units', log)
        /\ IF ai.k < n
           THEN /\ queue' = Append(queue, Item("move", e))
                /\ ai' = [ai EXCEPT !.k = ai.k + 1]
           ELSE /\ queue' = queue
                /\ ai' = [ai EXCEPT !.phase = "rest", !.steps = <<>>, !.k = 0,
                            !.stateUnits = mirrorAfter(@, e, p)]
  /\ UNCHANGED <<turn, selectedId, intro, canStartIntro, timers, acts, cmds, last, rq, rres, aq>>

\* the loop taking up the same enemy again after its waits
afterRest_same(i) == i

\* for (const e of enemies): after the waits (continue, or the end of the loop body)
\* the loop goes on with the next enemy
afterRest(i) == i + 1

\* what the round itself set going before its waits is over: its queue items, its
\* impact and the corpse removal of its victim.  (After a restart the round goes on
\* while the player plays, and the player's own hops may still be pending; a commit
\* of the player, 100 ms after its command, is taken before the round's next step,
\* so that it also comes before a removal that this step leads to.)
ownEffectsDone ==
  /\ \A i \in 1 .. Len(queue) : team[queue[i].unitId] # "enemy"
  /\ \A t \in Pending :
       /\ t.kind \notin {"impact", "heal"}
       /\ t.kind = "remove" => team[t.b] # "player"

\* wait(520) and wait(1000) are over.  1520 ms exceed every delay still pending
\* when they began (impact 100, removal 900, a player's safety snap 10, at most
\* three enemy hop items of 320), so nothing is pending any more.
AIRest ==
  /\ ai.running /\ ai.phase = "rest"
  /\ IF turn = "enemy" THEN queue = <<>> /\ Pending = {} ELSE ownEffectsDone
  /\ aiRun(afterRest(ai.i), ai.enemies, ai.stateUnits)
  /\ UNCHANGED <<selectedId, intro, canStartIntro, cmds, last, rq, rres, aq>>

\* --------------------------- Intro ---------------------------
\* assets ready: setCanStartIntro(true), whose effect sets intro
AssetsReady ==
  /\ ~canStartIntro
  /\ canStartIntro' = TRUE
  /\ intro' = TRUE
  /\ UNCHANGED <<units, turn, selectedId, log, queue, timers, ai, acts, cmds, last, rq, rres, aq>>

\* The cinematic lasts 6000 ms from the moment intro is set.  Every timer and queue
\* item that was pending then is over well before (the longest, a walk of eight
\* hops, takes 2570 ms).  An enemy round that was running when a restart set intro
\* had decided for the enemy whose attack ended the match at least 100 ms before;
\* each later enemy takes 1520 ms, plus 320 ms per hop (three hops for e1, one for
\* the others), so the third enemy after that one is decided for within 5840 ms,
\* and only the waits or hops of a fourth enemy can outlast the cinematic.
introOutlasts ==
  \/ ~ai.running /\ queue = <<>> /\ Pending = {}
  \/ ai.running /\ ai.i >= 4

\* IntroCinematic onEnd
IntroEnd ==
  /\ intro
  /\ introOutlasts
  /\ intro' = FALSE
  /\ turn' = "player"
  /\ UNCHANGED <<units, selectedId, log, canStartIntro, queue, timers, ai, acts, cmds,
                 last, rq, rres, aq>>

\* --------------------------- Specification ---------------------------
TileClick == cmds < MaxCommands /\ \E tile \in TileInputs : onTileClick(tile)

UnitClick == cmds < MaxCommands /\ \E u \in UnitInputs \cap DOMAIN units : onUnitClick(u)

TimerFires ==
  \E t \in Pending : FireImpact(t) \/ FireRemove(t) \/ FireHeal(t) \/ FireWalk(t)

\* effects run before the next event is handled: while the enemy AI effect is due,
\* nothing else happens
effectsSettled == ~aiStartable

Next ==
  \/ AIStart
  \/ effectsSettled /\ AssetsReady
  \/ effectsSettled /\ IntroEnd
  \/ effectsSettled /\ TileClick
  \/ effectsSettled /\ UnitClick
  \/ effectsSettled /\ EndTurnClick
  \/ effectsSettled /\ Dequeue
  \/ effectsSettled /\ TimerFires
  \/ effectsSettled /\ AIHop
  \/ effectsSettled /\ AIRest

Spec == Init /\ [][Next]_vars

\* Timers the browser has set do fire, the queue runner's wait ends, and the awaits
\* of doEnemyRound resolve; the player is under no obligation to click.  React runs
\* a pending effect: AIStart is enabled exactly when aiStartable holds (aiRun always
\* changes ai or turn), so its weak fairness is written out on that guard.
Fairness ==
  /\ ([]<>(~aiStartable) \/ []<><<AIStart>>_vars)
  /\ WF_vars(effectsSettled /\ Dequeue)
  /\ WF_vars(effectsSettled /\ TimerFires)
  /\ WF_vars(effectsSettled /\ AIHop)
  /\ WF_vars(effectsSettled /\ AIRest)

\* --------------------------- Late in a battle ---------------------------
\* the overlay's "Restart the battle" button, shown while log is set: it resets
\* units, turn, log and intro, and nothing else
Restart ==
  /\ log # NULL
  /\ units' = initialUnits
  /\ turn' = "player"
  /\ log' = NULL
  /\ intro' = TRUE
  /\ acts' = [id \in Ids |-> 0]
  /\ UNCHANGED <<selectedId, canStartIntro, queue, timers, ai, cmds, last, rq, rres, aq>>

\* boards of a battle that has gone on for some rounds: who is left, where, with
\* what hp
unitAt(px, py, h) == [x |-> px, y |-> py, hp |-> h, hasActed |-> FALSE, dying |-> FALSE]

\* two player units in range of the archer e3, the farther first in the registry
BoardTwoInRange ==
  [knight |-> unitAt(5, 5, 10), rider |-> unitAt(7, 4, 10), e3 |-> unitAt(9, 5, 15)]

\* the nearest player unit five cells from a melee enemy of move 3, the way clear
BoardFiveAway == [hero |-> unitAt(3, 2, 20), e1 |-> unitAt(8, 2, 4)]

\* a player unit next to the first enemy, nearest to but out of range of a later one
BoardNextToFirst ==
  [hero |-> unitAt(3, 3, 20), rider |-> unitAt(9, 4, 10),
   e0 |-> unitAt(9, 3, 20), e2 |-> unitAt(7, 3, 15)]

\* a melee unit at (0,0) and an enemy at (2,0)
BoardCorner == [knight |-> unitAt(0, 0, 10), e1 |-> unitAt(2, 0, 4)]

\* the last two units, next to each other, both weak
BoardLastTwo == [knight |-> unitAt(1, 0, 2), e1 |-> unitAt(2, 0, 4)]

\* the last player unit, weak, between two enemies
BoardLastStand ==
  [knight |-> unitAt(8, 3, 1), e1 |-> unitAt(8, 2, 4), e3 |-> unitAt(9, 5, 15)]

\* the hero (atk 10) next to an enemy of hp 4
BoardHeroStrikes == [hero |-> unitAt(7, 2, 20), e1 |-> unitAt(8, 2, 4)]

LateBoards ==
  {BoardTwoInRange, BoardFiveAway, BoardNextToFirst, BoardCorner, BoardLastTwo,
   BoardLastStand, BoardHeroStrikes}

\* the player's turn has begun, or the player has just ended it
InitLate ==
  /\ \E b \in LateBoards : \E t \in {"player", "enemy"} :
       /\ turn = t
       /\ units = [id \in DOMAIN b |->
                     [b[id] EXCEPT !.hasActed = (t = "enemy" /\ team[id] = "player")]]
       /\ acts = [id \in Ids |->
                    IF t = "enemy" /\ team[id] = "player" /\ id \in DOMAIN b THEN 1 ELSE 0]
  /\ selectedId = NULL
  /\ log = NULL
  /\ intro = FALSE
  /\ canStartIntro = TRUE
  /\ queue = <<>>
  /\ timers = EmptyBag
  /\ ai = aiIdle
  /\ cmds = 0
  /\ last = noResolution
  /\ rq = noCall
  /\ rres = <<>>
  /\ aq = noRunner

\* the tiles clicked in these runs
LateTileInputs == {<<1, 0>>, <<0, 3>>}

LateTileClick == cmds < MaxLate /\ \E tile \in LateTileInputs : onTileClick(tile)

LateUnitClick == cmds < MaxLate /\ \E u \in DOMAIN units : onUnitClick(u)

NextLate ==
  \/ AIStart
  \/ effectsSettled /\ IntroEnd
  \/ effectsSettled /\ LateTileClick
  \/ effectsSettled /\ LateUnitClick
  \/ effectsSettled /\ EndTurnClick
  \/ effectsSettled /\ Restart
  \/ effectsSettled /\ Dequeue
  \/ effectsSettled /\ TimerFires
  \/ effectsSettled /\ AIHop
  \/ effectsSettled /\ AIRest

SpecLate == InitLate /\ [][NextLate]_vars

SpecLateFair == SpecLate /\ Fairness

\* --------------------------- reachable() on its own ---------------------------
\* origins, budgets and occupied sets the function is called with
ReachStarts == {<<0, 4>>, <<0, 0>>, <<9, 7>>, <<4, 3>>}

ReachObstacles == {<<1, 4>>, <<0, 3>>, <<0, 5>>, <<1, 0>>, <<4, 4>>, <<8, 7>>}

ReachInputs ==
  [start : ReachStarts, maxSteps : 0 .. MaxBudget, occupied : SUBSET ReachObstacles,
   done : {FALSE}]

InitReach ==
  /\ units = initialUnits
  /\ turn = NULL
  /\ selectedId = NULL
  /\ log = NULL
  /\ intro = FALSE
  /\ canStartIntro = FALSE
  /\ queue = <<>>
  /\ timers = EmptyBag
  /\ ai = aiIdle
  /\ acts = [id \in Ids |-> 0]
  /\ cmds = 0
  /\ last = noResolution
  /\ rq \in ReachInputs
  /\ rres = <<>>
  /\ aq = noRunner

ReachCall ==
  /\ ~rq.done
  /\ rres' = reachable(rq.start, rq.maxSteps, rq.occupied)
  /\ rq' = [rq EXCEPT !.done = TRUE]
  /\ UNCHANGED <<gameVars, aq>>

ReachNew ==
  /\ rq.done
  /\ rq' \in ReachInputs
  /\ rres' = <<>>
  /\ UNCHANGED <<gameVars, aq>>

NextReach == ReachCall \/ ReachNew

SpecReach == InitReach /\ [][NextReach]_vars

\* enqueue(item): setQueue(q => [...q, item]); the callers only add items of the unit
\* whose items are waiting
QEnqueue ==
  /\ aq.next <= MaxItems
  /\ \E u \in QUnits : \E ty \in QTypes :
       /\ \A i \in 1 .. Len(queueAfter(aq.q, aq.upd)) :
            queueAfter(aq.q, aq.upd)[i].unitId = u
       /\ aq' = [aq EXCEPT
                   !.upd = Append(@, [op |-> "append",
                                      item |-> [n |-> aq.next, type |-> ty, unitId |-> u]]),
                   !.next = @ + 1]
  /\ UNCHANGED <<gameVars, rq, rres>>

\* a render: the pending updaters are applied; the runner effect has to run again when
\* queue is a new array; the effects of the render before are flushed first
QRender ==
  /\ aq.upd # <<>>
  /\ ~aq.stale
  /\ aq' = [aq EXCEPT
              !.q = queueAfter(aq.q, aq.upd),
              !.anim = animAfter(aq.anim, aq.upd),
              !.upd = <<>>,
              !.stale = \E i \in 1 .. Len(aq.upd) : aq.upd[i].op \in {"append", "slice"},
              !.busy = Len(queueAfter(aq.q, aq.upd)) > 0,
              !.removed = @ \o dropped(aq.q, aq.upd)]
  /\ UNCHANGED <<gameVars, rq, rres>>

\* the cleanup of the effect before: cancelled = true in its run
cleanedUp(runs) == {[r EXCEPT !.cancelled = TRUE] : r \in runs}

\* an effect that starts a run only for a queue of one item
startsRun_single(q) == Len(q) = 1

\* if (queue.length === 0) return;
startsRun(q) == q # <<>>

\* the runner effect: after the cleanup, a run for queue[0] when there is one; the run
\* sets animState and starts its timer
QEffect ==
  /\ aq.stale
  /\ IF ~startsRun(aq.q)
     THEN aq' = [aq EXCEPT !.stale = FALSE, !.runs = cleanedUp(@)]
     ELSE aq' = [aq EXCEPT
                   !.stale = FALSE,
                   !.runs = cleanedUp(@) \cup
                            {[n |-> aq.q[1].n, unitId |-> aq.q[1].unitId,
                              cancelled |-> FALSE, ripe |-> FALSE]},
                   !.upd = Append(@, [op |-> "anim", unitId |-> aq.q[1].unitId,
                                      type |-> aq.q[1].type]),
                   !.played = Append(@, aq.q[1].n)]
  /\ UNCHANGED <<gameVars, rq, rres>>

\* the durations (320 ms and more) are long against a render and its effects: a timer
\* comes due only while nothing is left to render or flush
QTick ==
  /\ aq.upd = <<>>
  /\ ~aq.stale
  /\ \E r \in aq.runs : ~r.ripe
  /\ aq' = [aq EXCEPT !.runs = {[r EXCEPT !.ripe = TRUE] : r \in @}]
  /\ UNCHANGED <<gameVars, rq, rres>>

\* a run that never returns early
endsPlayback_always(r) == TRUE

\* if (cancelled) return
endsPlayback(r) == ~r.cancelled

\* await wait(dur) returns in a run: unless cancelled, the unit goes idle and the head
\* is sliced off
QFire ==
  \E r \in aq.runs :
    /\ r.ripe
    /\ aq' = [aq EXCEPT
                !.runs = @ \ {r},
                !.upd = IF endsPlayback(r)
                        THEN @ \o <<[op |-> "anim", unitId |-> r.unitId, type |-> "idle"],
                                    [op |-> "slice", n |-> r.n]>>
                        ELSE @]
    /\ UNCHANGED <<gameVars, rq, rres>>

InitQueue ==
  /\ units = initialUnits
  /\ turn = NULL
  /\ selectedId = NULL
  /\ log = NULL
  /\ intro = FALSE
  /\ canStartIntro = FALSE
  /\ queue = <<>>
  /\ timers = EmptyBag
  /\ ai = aiIdle
  /\ acts = [id \in Ids |-> 0]
  /\ cmds = 0
  /\ last = noResolution
  /\ rq = noCall
  /\ rres = <<>>
  /\ aq = noRunner

NextQueue == QEnqueue \/ QRender \/ QEffect \/ QTick \/ QFire

SpecQueue == InitQueue /\ [][NextQueue]_vars

\* React renders pending updates and flushes effects, time passes, timers fire
QueueFairness ==
  WF_vars(QRender) /\ WF_vars(QEffect) /\ WF_vars(QTick) /\ WF_vars(QFire)

SpecQueueFair == SpecQueue /\ QueueFairness

\* ---- the step path of a move, for every origin and destination of the grid ----
\* the units whose moves are computed in these runs: a player unit and an enemy
PathMovers == {"rider", "e1"}

PathInputs == [from : Cells, to : Cells, unit : PathMovers, done : {FALSE}]

InitPath ==
  /\ units = initialUnits
  /\ turn = NULL
  /\ selectedId = NULL
  /\ log = NULL
  /\ intro = FALSE
  /\ canStartIntro = FALSE
  /\ queue = <<>>
  /\ timers = EmptyBag
  /\ ai = aiIdle
  /\ acts = [id \in Ids |-> 0]
  /\ cmds = 0
  /\ last = noResolution
  /\ rq \in PathInputs
  /\ rres = <<>>
  /\ aq = noRunner

\* the while-loop building steps, then the loop over steps with its enqueue per step
PathCall ==
  /\ ~rq.done
  /\ rres' = stepPath(rq.from, rq.to)
  /\ queue' = enqueueMoves(queue, rq.unit, Len(rres'))
  /\ rq' = [rq EXCEPT !.done = TRUE]
  /\ UNCHANGED <<units, turn, selectedId, log, intro, canStartIntro, timers, ai, acts,
                 cmds, last, aq>>

NextPath == PathCall

SpecPath == InitPath /\ [][NextPath]_vars

\* --------------------------- Properties ---------------------------

\* C1: no two units that are both alive (hp > 0) occupy the same cell, in every
\* reachable state, the intermediate hops of a move included.
C1_NoSharedCell ==
  \A a \in DOMAIN units : \A b \in DOMAIN units :
    (a # b /\ units[a].hp > 0 /\ units[b].hp > 0) => posOf(units, a) # posOf(units, b)

livingPlayersActed ==
  \A id \in DOMAIN units : (team[id] = "player" /\ units[id].hp > 0) => units[id].hasActed

\* C2: the end-turn operation itself flips the turn only when every living player
\* unit has hasActed = true.
C2_GateInHandler == endTurnAccepted => livingPlayersActed

\* C3: between two resets of its hasActed flag a unit commits at most one action.
C3_OneActionPerRound == \A id \in Ids : acts[id] <= 1

\* the enemy round is under way after every player unit acted once: both sides acted
C3_Witness ==
  /\ turn = "enemy"
  /\ \A id \in PlayerIds : acts[id] = 1
  /\ \E e \in EnemyIds : acts[e] = 1

\* C4: an attack, heal or move that starts has a living source and, for an attack or
\* a heal, a living target: neither is dying or removed at the time it starts.
C4_NoDeadParty ==
  [][ /\ \A i \in (Len(queue) + 1) .. Len(queue') : alive(units, queue'[i].unitId)
      /\ \A t \in DOMAIN timers' :
           (/\ t.kind \in {"impact", "heal"}
            /\ IF t \in DOMAIN timers THEN timers'[t] > timers[t] ELSE TRUE)
           => alive(units, t.a) /\ alive(units, t.b) ]_vars

\* C5: every attack resolution draws a damage in [0, attacker.atk] and leaves the
\* target's hp in [0, hp before].
C5_AttackBounds ==
  last.kind = "attack" =>
    /\ last.n \in 0 .. atk[last.a]
    /\ last.after \in 0 .. last.before

\* an attack whose damage exceeded the hp the target had left
C5_Witness == last.kind = "attack" /\ last.before > 0 /\ last.n > last.before

\* C6: every heal resolution draws an amount in [0, healPower] and leaves the
\* target's hp in [hp before, maxHp].
C6_HealBounds ==
  last.kind = "heal" =>
    /\ last.n \in 0 .. maxHeal(last.a)
    /\ last.after \in last.before .. maxHp[last.b]

\* a heal of a damaged ally whose amount exceeded what the ally was missing
C6_Witness ==
  /\ last.kind = "heal"
  /\ last.before < maxHp[last.b]
  /\ last.before + last.n > maxHp[last.b]

\* C7: every unit of the registry has 0 <= hp <= maxHp and a position in the grid.
C7_UnitsWellFormed ==
  \A id \in DOMAIN units :
    /\ units[id].hp \in 0 .. maxHp[id]
    /\ units[id].x \in 0 .. GRID_COLS - 1
    /\ units[id].y \in 0 .. GRID_ROWS - 1

\* a killed unit is still in the registry while another, damaged, has left its cell
C7_Witness ==
  /\ \E id \in DOMAIN units : units[id].hp = 0
  /\ \E id \in DOMAIN units :
       /\ units[id].hp > 0 /\ units[id].hp < maxHp[id]
       /\ posOf(units, id) # posOf(initialUnits, id)

\* a tile click the rules reject: not the player's turn, no unit selected, the
\* selected unit has acted, or the tile is outside its reachable set
TileIllegal(tile) ==
  \/ turn # "player"
  \/ ~hasSelected
  \/ units[selectedId].hasActed
  \/ tile \notin Range(reachable(posOf(units, selectedId), move[selectedId],
                                 occupied(units) \ {posOf(units, selectedId)}))

\* an attack click the rules reject: not the player's turn, the selected unit has
\* acted, or the enemy is out of range and no step-then-attack applies
UnitIllegal(u) ==
  \/ turn # "player"
  \/ /\ team[u] = "enemy" /\ hasSelected
     /\ \/ units[selectedId].hasActed
        \/ /\ manhattan(units[selectedId], units[u]) > rangeOf(selectedId)
           /\ \/ ~isMeleeUnit(selectedId)
              \/ \A c \in Range(reachable(posOf(units, selectedId), move[selectedId],
                                          occupied(units) \ {posOf(units, selectedId)})) :
                   cellDist(c, posOf(units, u)) > 1

newItems == {queue'[i] : i \in (Len(queue) + 1) .. Len(queue')}

\* the impact and heal timers a step sets
newTimers ==
  {t \in DOMAIN timers' :
     /\ t.kind \in {"impact", "heal"}
     /\ IF t \in DOMAIN timers THEN timers'[t] > timers[t] ELSE TRUE}

\* C11: only units of the active side are commanded.  A player command is accepted
\* only on the player's turn and its source is the selected player unit, which has
\* not acted; whatever else starts is started by the enemy round for an enemy unit;
\* a unit becomes selected only if it is a player unit that has not acted, on the
\* player's turn.
C11_OwnSideOnly ==
  [][ /\ cmds' # cmds =>
           /\ turn = "player"
           /\ hasSelected /\ team[selectedId] = "player" /\ ~units[selectedId].hasActed
           /\ \A it \in newItems : it.unitId = selectedId
           /\ \A t \in newTimers : t.a = selectedId
      /\ cmds' = cmds =>
           /\ \A it \in newItems : team[it.unitId] = "enemy" /\ turn = "enemy"
           /\ \A t \in newTimers : team[t.a] = "enemy" /\ turn = "enemy"
      /\ (selectedId' # selectedId /\ selectedId' # NULL) =>
           /\ turn = "player"
           /\ selectedId' \in DOMAIN units
           /\ team[selectedId'] = "player" /\ ~units[selectedId'].hasActed ]_vars

\* C12: a click on a reachable cell moves the selected unit there, and if the move
\* ends next to an enemy (4-neighbourhood) the unit attacks that enemy: when the last
\* callback of the move has run, the unit stands on the clicked cell and an attack
\* of it on every living enemy next to that cell is under way.
C12_MoveThenAttack ==
  [][ \A w \in DOMAIN timers :
        (/\ w.kind = "walk" /\ w.n = Len(w.path) + 1
         /\ w \notin DOMAIN timers'
         /\ w.a \in DOMAIN units') =>
          LET dest == w.path[Len(w.path)] IN
          /\ posOf(units', w.a) = dest
          /\ \A e \in DOMAIN units' :
               (/\ team[e] = "enemy" /\ units'[e].hp > 0
                /\ cellDist(posOf(units', e), dest) = 1) =>
                 \/ \E t \in DOMAIN timers' : t.kind = "impact" /\ t.a = w.a /\ t.b = e
                 \/ last'.kind = "attack" /\ last'.a = w.a /\ last'.b = e ]_vars

\* C13: once the enemy is the active side and the match is undecided, the enemy
\* round completes and the player becomes active again; the step that makes the
\* player active is no player command and leaves every living player unit with
\* hasActed = false.
C13_EnemyRoundEnds ==
  /\ (turn = "enemy" /\ log = NULL) ~> (turn = "player")
  /\ [][ (turn = "enemy" /\ turn' = "player") =>
           /\ cmds' = cmds /\ selectedId' = selectedId
           /\ \A id \in DOMAIN units' :
                (team[id] = "player" /\ units'[id].hp > 0) => ~units'[id].hasActed ]_vars

\* the player is active again after a round in which an enemy acted
C13_Witness ==
  /\ turn = "player" /\ ~ai.running /\ log = NULL
  /\ \E e \in EnemyIds : acts[e] = 1
  /\ \A id \in DOMAIN units : team[id] = "player" => ~units[id].hasActed /\ acts[id] = 0

\* C14: a turn change resets hasActed for the units of the newly active side only:
\* on a step that flips turn (ending the player's turn, or ending the enemy round)
\* the registry keeps its units, every unit keeps its position, hp and dying mark,
\* every unit of the side that was active keeps its hasActed, and every unit of the
\* side that becomes active has hasActed = false.
C14_TurnChangeFrame ==
  [][ (turn' # turn /\ intro' = intro) =>
        /\ DOMAIN units' = DOMAIN units
        /\ \A id \in DOMAIN units :
             /\ units'[id].x = units[id].x /\ units'[id].y = units[id].y
             /\ units'[id].hp = units[id].hp /\ units'[id].dying = units[id].dying
             /\ team[id] = turn => units'[id].hasActed = units[id].hasActed
             /\ team[id] = turn' => ~units'[id].hasActed ]_vars

\* the enemy round has ended: an enemy that attacked in it still has hasActed = true,
\* the player units have been reset
C14_Witness ==
  /\ turn = "player" /\ ~ai.running /\ ~intro
  /\ \E e \in EnemyIds \cap DOMAIN units : units[e].hasActed /\ acts[e] = 1
  /\ \E p \in PlayerIds \cap DOMAIN units : TRUE
  /\ \A p \in PlayerIds \cap DOMAIN units : ~units[p].hasActed

\* the place of a unit in the registry order
orderIndex(id) == CHOOSE i \in 1 .. Len(Order) : Order[i] = id

\* the living player units within the attack range of enemy e, on the registry us
inRangeOf(us, e) ==
  {p \in DOMAIN us : /\ team[p] = "player" /\ us[p].hp > 0
                     /\ manhattan(us[e], us[p]) <= rangeOf(e)}

\* the enemy round starts an attack on this step: the new impact timers of enemies
enemyAttacks == {t \in newTimers : t.kind = "impact" /\ team[t.a] = "enemy"}

\* C15: when living player units lie within an enemy's attack range at its decision,
\* the attack the enemy starts is on the nearest of them by Manhattan distance, the
\* first in registry order among the nearest.
C15_AttacksNearest ==
  [][ \A t \in enemyAttacks :
        (t.a \in DOMAIN units /\ inRangeOf(units, t.a) # {}) =>
          /\ t.b \in inRangeOf(units, t.a)
          /\ \A p \in inRangeOf(units, t.a) :
               \/ manhattan(units[t.a], units[t.b]) < manhattan(units[t.a], units[p])
               \/ /\ manhattan(units[t.a], units[t.b]) = manhattan(units[t.a], units[p])
                  /\ orderIndex(t.b) <= orderIndex(p) ]_vars

\* the enemy round takes the decision for one enemy on this step
decides == ai'.running /\ (~ai.running \/ ai'.i # ai.i)

decider == ai'.enemies[ai'.i]

\* the cell the decider is sent to (its own cell when it stays)
decidedCell ==
  IF ai'.phase = "hop" THEN ai'.steps[Len(ai'.steps)] ELSE posOf(units, decider)

livingPlayers(us) == {p \in DOMAIN us : team[p] = "player" /\ us[p].hp > 0}

\* the living player units of us at the least Manhattan distance from unit e
nearestLiving(us, e) ==
  {n \in livingPlayers(us) :
     \A p \in livingPlayers(us) : manhattan(us[e], us[n]) <= manhattan(us[e], us[p])}

\* C16: when no living player unit is within the attack range of the enemy that
\* decides, it starts no attack, and the cell it is sent to is its own cell or a
\* cell of its reachable set, at the least Manhattan distance from the nearest
\* living player unit among those cells (its own cell when none is strictly closer).
C16_MovesTowardNearest ==
  [][ (/\ decides /\ decider \in DOMAIN units
       /\ livingPlayers(units) # {} /\ inRangeOf(units, decider) = {}) =>
        /\ \A t \in enemyAttacks : t.a # decider
        /\ \A own \in {posOf(units, decider)} :
           \A r \in {Range(reachable(own, move[decider], occupied(units) \ {own}))
                       \cup {own}} :
             /\ decidedCell \in r
             /\ \E n \in nearestLiving(units, decider) :
                  /\ \A c \in r : cellDist(decidedCell, posOf(units, n))
                                     <= cellDist(c, posOf(units, n))
                  /\ (decidedCell # own =>
                        cellDist(decidedCell, posOf(units, n)) < cellDist(own, posOf(units, n)))
    ]_vars

\* Scenario E: the enemy of range 1 and move 3 whose nearest player unit was five
\* cells away has ended its move two cells from it, and no attack of it is under way
C16_ScenarioE ==
  /\ DOMAIN units = {"hero", "e1"}
  /\ posOf(units, "hero") = <<3, 2>> /\ posOf(units, "e1") = <<5, 2>>
  /\ units["e1"].hasActed /\ units["hero"].hp = 20
  /\ \A t \in Pending : t.a # "e1"

\* the enemies of a round that are alive in the registry us, by their index
livingAt(us, enemies, j) == enemies[j] \in DOMAIN us /\ us[enemies[j]].hp > 0

enemyItems(type) == {it \in newItems : it.type = type /\ team[it.unitId] = "enemy"}

\* C17: a round takes its enemies from the registry in registry order; the index of
\* the enemy under decision only grows, it skips no living enemy, and the round ends
\* only past the last living enemy (each is evaluated exactly once).  An attack of
\* an enemy starts only at its decision and then no move of it starts; a move of an
\* enemy starts only at its decision, without an attack, and goes on only with the
\* further hops of that same enemy: an enemy that moved starts no attack, even when
\* a player unit is within its range at the end of the move.
C17_OncePerRound ==
  [][ /\ (~ai.running /\ ai'.running) => ai'.enemies = filterTeam(units, "enemy")
      /\ (ai.running /\ ai'.running) => ai'.enemies = ai.enemies
      /\ decides =>
           /\ ai'.i > ai.i
           /\ \A j \in (ai.i + 1) .. (ai'.i - 1) : ~livingAt(units, ai'.enemies, j)
      /\ (ai.running /\ ~ai'.running) =>
           \A j \in (ai.i + 1) .. Len(ai.enemies) : ~livingAt(units, ai.enemies, j)
      /\ (enemyAttacks # {} \/ enemyItems("attack") # {}) =>
           /\ decides /\ ai'.phase = "rest"
           /\ \A t \in enemyAttacks : t.a = decider
           /\ \A it \in enemyItems("attack") : it.unitId = decider
           /\ enemyItems("move") = {}
      /\ enemyItems("move") # {} =>
           \/ /\ decides /\ ai'.phase = "hop"
              /\ \A it \in enemyItems("move") : it.unitId = decider
           \/ /\ ai.running /\ ai.phase = "hop" /\ ai'.i = ai.i
              /\ \A it \in enemyItems("move") : it.unitId = ai.enemies[ai.i]
    ]_vars

\* an enemy has just ended its move with a living player unit within its range: its
\* last hop item is still the head of the queue, and the round is in its waits
C17_Witness ==
  /\ ai.running /\ ai.phase = "rest" /\ turn = "enemy"
  /\ queue # <<>> /\ queue[1].type = "move" /\ queue[1].unitId = ai.enemies[ai.i]
  /\ ai.enemies[ai.i] \in DOMAIN units /\ units[ai.enemies[ai.i]].hasActed
  /\ inRangeOf(units, ai.enemies[ai.i]) # {}
  /\ \A t \in Pending : t.kind = "impact" => t.a # ai.enemies[ai.i]

livingEnemies(us) == {e \in DOMAIN us : team[e] = "enemy" /\ us[e].hp > 0}

\* C18: as long as no result is set both sides have a living unit (a registry
\* change that leaves a side without one sets the result at once); when the result
\* gets set it is "Failure!" exactly if no player unit is alive, whether or not an
\* enemy is, and "Victory!" only if a player unit is alive and no enemy unit is; so
\* it is never set while both sides have a living unit.
C18_ResultMatchesBoard ==
  /\ [](log = NULL => livingPlayers(units) # {} /\ livingEnemies(units) # {})
  /\ [][ (log = NULL /\ log' # NULL) =>
           /\ log' \in {"Failure!", "Victory!"}
           /\ log' = "Failure!" <=> livingPlayers(units') = {}
           /\ log' = "Victory!" =>
                livingPlayers(units') # {} /\ livingEnemies(units') = {} ]_vars

\* the last player unit has been killed in the enemy round: defeat
C18_Witness ==
  /\ log = "Failure!" /\ turn = "enemy"
  /\ livingPlayers(units) = {} /\ livingEnemies(units) # {}
  /\ last.kind = "attack" /\ team[last.a] = "enemy" /\ last.after = 0

\* the last enemy unit has been killed on the player's turn: victory
C18_Victory ==
  /\ log = "Victory!" /\ turn = "player"
  /\ livingPlayers(units) # {} /\ livingEnemies(units) = {}

\* Scenario C: the knight (range 1) and the enemy e1 two cells to its right
scenarioC(kx) ==
  /\ {"knight", "e1"} \subseteq DOMAIN units
  /\ posOf(units, "knight") = <<kx, 0>> /\ posOf(units, "e1") = <<2, 0>>
  /\ units["knight"].hp > 0 /\ units["e1"].hp > 0
  /\ turn = "player" /\ ~intro /\ log = NULL
  /\ queue = <<>> /\ Pending = {}

\* the attack on e1 at two cells is refused: the click on e1 changes nothing
C19_DirectRejected ==
  (scenarioC(0) /\ selectedId = "knight" /\ ~units["knight"].hasActed) =>
    ~clickChanges("e1")

\* the knight's move from (0,0) to (1,0) arrives next to e1 and leaves the knight
\* its action, so that its attack on e1 is still accepted in this round
C19_AfterMoveAccepted ==
  [][ \A w \in DOMAIN timers :
        (/\ w.kind = "walk" /\ w.a = "knight" /\ w.path = << <<1, 0>> >>
         /\ {"knight", "e1"} \subseteq DOMAIN units /\ DOMAIN units' = DOMAIN units
         /\ posOf(units, "knight") = <<0, 0>> /\ posOf(units', "knight") = <<1, 0>>
         /\ posOf(units', "e1") = <<2, 0>> /\ units'["e1"].hp > 0 /\ turn = "player")
        => ~units'["knight"].hasActed ]_vars

\* C19: with the attacker (range 1) at (0,0) and the target at (2,0) the attack is
\* rejected with no state change, and after the attacker's move to (1,0) the same
\* attack by the same unit in the same round is accepted.
C19_ScenarioC == []C19_DirectRejected /\ C19_AfterMoveAccepted

\* C20: when the impact callback of an accepted attack has run, the attacker, if it
\* is still in the registry, has hasActed = true, whatever the damage and whatever
\* has become of the target.
C20_AttackerHasActed ==
  [][ \A t \in DOMAIN timers :
        (/\ t.kind = "impact"
         /\ (t \notin DOMAIN timers' \/ timers'[t] < timers[t])
         /\ t.a \in DOMAIN units')
        => units'[t.a].hasActed ]_vars

\* the impact and heal timers whose callback runs on this step
firedTimers ==
  {t \in DOMAIN timers :
     /\ t.kind \in {"impact", "heal"}
     /\ IF t \in DOMAIN timers' THEN timers'[t] < timers[t] ELSE TRUE}

\* C21: a heal is accepted (its commit is set going) only for the selected mage,
\* which has not acted, on a living player unit other than the mage; when the commit
\* of an accepted heal has run the mage has hasActed = true; and hp never rises
\* except by the commit of an accepted heal on its target, so a rejected heal
\* changes no hp, and it changes no hasActed either: hasActed becomes true only
\* through a hop, a commit or an impact, never on the step of a click.
C21_HealAccepted ==
  [][ /\ \A t \in newTimers : t.kind = "heal" =>
           /\ t.a = "mage" /\ selectedId = "mage" /\ turn = "player"
           /\ "mage" \in DOMAIN units /\ ~units["mage"].hasActed
           /\ t.b \in DOMAIN units /\ team[t.b] = "player" /\ t.b # "mage"
           /\ units[t.b].hp > 0 /\ ~units[t.b].dying
           /\ units' = units
      /\ \A t \in firedTimers : (t.kind = "heal" /\ t.a \in DOMAIN units') =>
           units'[t.a].hasActed
      /\ intro' = intro =>
           \A id \in DOMAIN units \cap DOMAIN units' :
             /\ units'[id].hp > units[id].hp =>
                  \E t \in firedTimers : t.kind = "heal" /\ t.b = id
             /\ (cmds' # cmds \/ selectedId' \notin {selectedId, NULL}) =>
                  /\ units'[id].hp = units[id].hp
                  /\ units'[id].hasActed = units[id].hasActed ]_vars

\* the commit of an accepted heal has raised the hp of a damaged ally, and the mage
\* has acted
C21_Witness ==
  /\ last.kind = "heal" /\ last.a = "mage"
  /\ last.after > last.before
  /\ "mage" \in DOMAIN units /\ units["mage"].hasActed /\ acts["mage"] = 1

\* the walks a step sets going: the accepted player moves
newWalks ==
  {w \in DOMAIN timers' :
     /\ w.kind = "walk" /\ w.n = 0
     /\ IF w \in DOMAIN timers THEN timers'[w] > timers[w] ELSE TRUE}

firedWalks ==
  {w \in DOMAIN timers :
     /\ w.kind = "walk"
     /\ IF w \in DOMAIN timers' THEN timers'[w] < timers[w] ELSE TRUE}

\* the mover of the step is in the registry after it, on cell p, with hasActed = f
standsAt(id, p, f) ==
  id \in DOMAIN units' => posOf(units', id) = p /\ units'[id].hasActed = f

\* C23: every hop of a move puts the actor (while it is in the registry) on the next
\* cell of the path; the actor has hasActed = false before every hop, still false
\* after every hop but the last, and true after the last, which lands on the last
\* cell of the path, the destination; the closing snap of a player move leaves the
\* actor on the destination with hasActed = true.  It holds for the moves of the
\* player and for the moves of the enemy round.
C23_ActedOnFinalHop ==
  [][ /\ \A w \in firedWalks :
           LET n == Len(w.path) IN
           /\ w.n < n =>
                /\ w.a \in DOMAIN units => ~units[w.a].hasActed
                /\ standsAt(w.a, w.path[w.n + 1], w.n + 1 = n)
           /\ (w.n = n /\ w.a \in DOMAIN units) =>
                /\ posOf(units, w.a) = w.path[n] /\ units[w.a].hasActed
                /\ units'[w.a] = units[w.a]
           /\ w.n > n => standsAt(w.a, w.path[n], TRUE)
      /\ (ai.running /\ ai.phase = "hop" /\ ai' # ai) =>
           LET e == ai.enemies[ai.i] IN
           /\ e \in DOMAIN units => ~units[e].hasActed
           /\ standsAt(e, ai.steps[ai.k], ai.k = Len(ai.steps))
           /\ ai.k = Len(ai.steps) <=> ai'.phase = "rest" ]_vars

\* a player move of three hops or more has made its last hop: the actor is on the
\* destination with hasActed = true, the closing callbacks still pending
C23_Witness ==
  \E w \in Pending :
    /\ w.kind = "walk" /\ Len(w.path) >= 3 /\ w.n = Len(w.path)
    /\ w.a \in DOMAIN units
    /\ posOf(units, w.a) = w.path[Len(w.path)] /\ units[w.a].hasActed

\* an enemy move of three hops is at its second hop: hasActed is still false
C23_EnemyMidMove ==
  /\ ai.running /\ ai.phase = "hop" /\ Len(ai.steps) = 3 /\ ai.k = 3
  /\ ~units[ai.enemies[ai.i]].hasActed
  /\ posOf(units, ai.enemies[ai.i]) = ai.steps[2]

\* the serials of the items of a sequence of items, in order
serials(q) == [i \in 1 .. Len(q) |-> q[i].n]

\* the items of the pending enqueue updaters, in order
RECURSIVE appended(_)
appended(upd) ==
  IF upd = <<>> THEN <<>>
  ELSE IF Head(upd).op = "append" THEN <<Head(upd).item>> \o appended(Tail(upd))
  ELSE appended(Tail(upd))

\* the playback timers not cancelled
liveRuns == {r \in aq.runs : ~r.cancelled}

QueueOrder ==
  \* append-only and FIFO: the items removed, then the items queued, then the items
  \* being added are the items enqueued, each once, in the order of their enqueueing
  /\ [i \in 1 .. Len(aq.removed) |-> aq.removed[i][1]] \o serials(aq.q)
       \o serials(appended(aq.upd)) = [i \in 1 .. aq.next - 1 |-> i]
  \* each removal drops the item its playback was started for
  /\ \A i \in 1 .. Len(aq.removed) : aq.removed[i][1] = aq.removed[i][2]
  \* playbacks start in the order of enqueueing (one restarts when the queue changes)
  /\ \A i, j \in 1 .. Len(aq.played) : i <= j => aq.played[i] <= aq.played[j]
  \* one playback at a time, and once the effects are flushed it is the head's
  /\ Cardinality(liveRuns) <= 1
  /\ ~aq.stale => \A r \in liveRuns : aq.q # <<>> /\ r.n = aq.q[1].n
  \* only the unit of the head is shown playing
  /\ \A u \in QUnits : aq.anim[u] # "idle" => aq.q # <<>> /\ aq.q[1].unitId = u
  \* isBusy is true exactly when the queue is non-empty
  /\ aq.busy <=> aq.q # <<>>

\* C24: the animation queue is append-only and FIFO: the items are played in the order
\* they were enqueued, only the head is playing, each item is removed exactly once, by
\* the playback started for it, also when items are enqueued while the head is playing;
\* isBusy is true exactly when the queue is non-empty; and every item enqueued is
\* eventually removed.
C24_QueueFifo ==
  /\ []QueueOrder
  /\ \A n \in 1 .. MaxItems :
       (aq.next > n) ~> (\E i \in 1 .. Len(aq.removed) : aq.removed[i][1] = n)

\* an item was enqueued while the head's timer was due, the head's playback was
\* restarted, and both items have been removed
C24_Witness ==
  /\ Len(aq.played) >= 3
  /\ aq.played[1] = 1
  /\ aq.played[2] = 1
  /\ Len(aq.removed) >= 2
  /\ aq.q = <<>>

\* C25: while the animation queue is non-empty no player move, attack, heal or
\* selection is accepted and no enemy round starts: a step taken with items waiting
\* accepts no command, starts no animation, attack or heal of a player unit and no
\* walk, selects no unit, and does not start doEnemyRound.
C25_BusyBlocks ==
  [][ queue # <<>> =>
        /\ cmds' = cmds
        /\ \A id \in Ids : team[id] = "player" => acts'[id] <= acts[id]
        /\ \A it \in newItems : team[it.unitId] = "enemy"
        /\ \A t \in newTimers : team[t.a] = "enemy"
        /\ newWalks = {}
        /\ selectedId' \in {selectedId, NULL}
        /\ ~(ai'.running /\ ~ai.running) ]_vars

\* a command of a unit is still in the queue, a player unit that may act stands next
\* to be commanded, and the turn is the player's
C25_Witness ==
  /\ queue # <<>>
  /\ team[queue[1].unitId] = "player"
  /\ turn = "player"
  /\ ~intro
  /\ cmds >= 1
  /\ \E u \in DOMAIN units : team[u] = "player" /\ units[u].hp > 0 /\ ~units[u].hasActed

\* the turn went to the enemy while the player's last command is still playing
C25_EnemyWaits ==
  /\ queue # <<>>
  /\ turn = "enemy"
  /\ log = NULL
  /\ ~ai.running

\* C26: every unit whose hp is reduced to 0 is eventually removed from the registry
\* under fair timers.  While it is in the registry with hp = 0 a removal callback is
\* pending for it; no step gives it hp back, except the restart of the battle, which
\* replaces the whole registry; and it does not stay in the registry with hp = 0.
C26_CorpseRemoved ==
  /\ [](\A id \in DOMAIN units :
          units[id].hp = 0 => \E t \in Pending : t.kind = "remove" /\ t.b = id)
  /\ [][ \A id \in DOMAIN units :
           units[id].hp = 0 =>
             \/ id \notin DOMAIN units'
             \/ units'[id].hp = 0
             \/ units' = initialUnits /\ intro' /\ ~intro ]_vars
  /\ \A id \in Ids :
       (id \in DOMAIN units /\ units[id].hp = 0)
         ~> (id \notin DOMAIN units \/ units[id].hp > 0)

\* the unit the last attack brought to hp 0 is gone from the registry, and the battle
\* goes on
C26_Witness ==
  /\ last.kind = "attack"
  /\ last.before > 0
  /\ last.after = 0
  /\ last.b \notin DOMAIN units
  /\ log = NULL

\* the cells of the units of the registry with hp > 0
livingCells(us) == {posOf(us, id) : id \in {u \in DOMAIN us : us[u].hp > 0}}

\* C27: a dying unit (hp = 0, still in the registry) blocks nothing: the reachable set
\* shown for the selected player unit is the one computed with only the cells of the
\* units with hp > 0 as obstacles.
C27_DyingBlocksNothing ==
  (hasSelected /\ turn = "player" /\ ~units[selectedId].hasActed) =>
    \A own \in {posOf(units, selectedId)} :
      Range(reach) = Range(reachable(own, move[selectedId], livingCells(units) \ {own}))

\* the enemies of the round taken up before the one at index i
earlier(i) == {ai'.enemies[j] : j \in 1 .. i - 1}

\* C28: within an enemy round the enemies are processed one after another, and the
\* occupancy used for an enemy's decision holds the destination, not the origin, of
\* every enemy that moved earlier in the round: on the step that decides a move the
\* round has gone on to a later enemy with no hop outstanding, the mirror places
\* every enemy where the registry has it, the destination is none of the mirror's
\* cells, and no enemy taken up earlier in the round stands on it or was sent to it.
C28_RoundOccupancy ==
  [][ (ai'.running /\ ai'.phase = "hop" /\ ai.phase # "hop") =>
        \A dest \in {ai'.steps[Len(ai'.steps)]} :
          /\ ai'.i > ai.i
          /\ ai.running => ai'.enemies = ai.enemies
          /\ \A en \in Range(ai'.enemies) \cap DOMAIN units \cap DOMAIN ai'.stateUnits :
               posOf(ai'.stateUnits, en) = posOf(units, en)
          /\ dest \notin occupied(ai'.stateUnits)
          /\ \A en \in earlier(ai'.i) \cap DOMAIN units' : posOf(units', en) # dest ]_vars

\* a later enemy of the round is moving after an earlier one has moved, and the
\* mirror has the earlier one at its destination
C28_Witness ==
  /\ ai.running /\ ai.phase = "hop" /\ ai.i >= 2
  /\ \E j \in 1 .. ai.i - 1 :
       /\ ai.enemies[j] \in DOMAIN units
       /\ posOf(units, ai.enemies[j]) # posOf(initialUnits, ai.enemies[j])
       /\ posOf(ai.stateUnits, ai.enemies[j]) = posOf(units, ai.enemies[j])

\* the one-time setup has not completed: the intro has not begun or is running
inSetup == intro \/ turn = NULL

\* C31: before the setup (intro) has completed no move, attack, heal, selection or
\* end of turn is accepted and the registry equals the initial roster; the first
\* active side after the setup is the player; the same holds while the intro runs
\* after a restart.
C31_SetupBlocks ==
  /\ [](inSetup => units = initialUnits)
  /\ [][ inSetup =>
           /\ cmds' = cmds
           /\ selectedId' \in {selectedId, NULL}
           /\ turn' # "enemy" ]_vars
  /\ [][ (intro /\ ~intro') => turn' = "player" ]_vars

\* the impact callbacks a step runs
firedImpacts == {t \in firedTimers : t.kind = "impact"}

\* C32: a unit in the registry is marked dying exactly when its hp is 0.  An attack
\* whose damage is at least the target's hp sets hp = 0 and dying = true, a smaller
\* damage takes it off the hp and leaves the target not dying; a unit that is dying
\* does not come back to life in its battle, so it goes from alive to dying at most
\* once.
C32_DyingIffZero ==
  /\ [](\A id \in DOMAIN units : units[id].dying <=> units[id].hp = 0)
  /\ [][ \A t \in firedImpacts :
           (t.b \in DOMAIN units /\ units[t.b].hp > 0) =>
             /\ t.b \in DOMAIN units'
             /\ IF t.n >= units[t.b].hp
                THEN units'[t.b].hp = 0 /\ units'[t.b].dying
                ELSE units'[t.b].hp = units[t.b].hp - t.n /\ ~units'[t.b].dying ]_vars
  /\ [][ \A id \in DOMAIN units :
           units[id].dying =>
             \/ id \notin DOMAIN units'
             \/ units'[id].dying
             \/ units' = initialUnits /\ intro' /\ ~intro ]_vars

\* the hero (atk 10) has hit a target of hp 4 hard enough, and it is dying
C32_Witness ==
  /\ last.kind = "attack"
  /\ last.a = "hero"
  /\ last.before = 4
  /\ last.n >= 4
  /\ last.b \in DOMAIN units
  /\ units[last.b].dying
  /\ units[last.b].hp = 0

\* the hero (atk 10) has hit a target of hp 4 too lightly, and it lives on
C32_Survives ==
  /\ last.kind = "attack"
  /\ last.a = "hero"
  /\ last.before = 4
  /\ last.n \in 1 .. 3
  /\ last.b \in DOMAIN units
  /\ ~units[last.b].dying
  /\ units[last.b].hp = 4 - last.n

\* the player units a click relocates on the spot
stepped ==
  {id \in DOMAIN units \cap DOMAIN units' :
     cmds' # cmds /\ posOf(units', id) # posOf(units, id)}

\* C33: the melee step-then-attack moves the actor to a cell of its current reachable
\* set next to the target and starts exactly one attack on that target from there,
\* which leaves the actor with hasActed = true when it resolves; only a melee player
\* unit that has not acted, with the target out of range, gets it.
C33_StepThenAttack ==
  /\ [][ \A id \in stepped :
           /\ id = selectedId /\ turn = "player" /\ ~intro
           /\ team[id] = "player" /\ isMeleeUnit(id) /\ rangeOf(id) = 1
           /\ ~units[id].hasActed /\ units[id].hp > 0
           /\ posOf(units', id) \in Range(reach)
           /\ \E t \in newTimers :
                /\ newTimers = {t}
                /\ timers'[t] = (IF t \in DOMAIN timers THEN timers[t] ELSE 0) + 1
                /\ t.kind = "impact" /\ t.a = id
                /\ t.b \in DOMAIN units /\ team[t.b] = "enemy" /\ units[t.b].hp > 0
                /\ cellDist(posOf(units, id), posOf(units, t.b)) > 1
                /\ cellDist(posOf(units', id), posOf(units', t.b)) = 1
           /\ queue' = queue \o <<Item("move", id), Item("attack", id)>>
           /\ units' = [units EXCEPT ![id].x = units'[id].x, ![id].y = units'[id].y]
           /\ acts'[id] = 1 ]_vars
  /\ [][ \A t \in firedImpacts :
           team[t.a] = "player" => t.a \in DOMAIN units' /\ units'[t.a].hasActed ]_vars
  /\ [](\A t \in Pending :
          (t.kind = "impact" /\ team[t.a] = "player") =>
             /\ t.a \in DOMAIN units /\ t.b \in DOMAIN units
             /\ queue # <<>>)

\* the first command of the run was a step-then-attack, and it has resolved: a melee
\* player unit stands on another cell than at the start, next to the enemy it hit,
\* and has acted
C33_Witness ==
  /\ cmds = 1
  /\ last.kind = "attack"
  /\ last.a \in DOMAIN units /\ team[last.a] = "player" /\ isMeleeUnit(last.a)
  /\ posOf(units, last.a) # posOf(initialUnits, last.a)
  /\ units[last.a].hasActed
  /\ last.b \in DOMAIN units
  /\ cellDist(posOf(units, last.a), posOf(units, last.b)) = 1

\* C34: a unit leaves the registry only with hp 0, whatever removal callback fires
\* and however it falls among the attacks on the same target; and no unit enters
\* the registry but by the restart of the battle.
C34_RemovedOnlyDead ==
  /\ [][ \A id \in DOMAIN units \ DOMAIN units' : units[id].hp = 0 ]_vars
  /\ [][ \/ DOMAIN units' \subseteq DOMAIN units
         \/ (units' = initialUnits /\ intro' /\ ~intro /\ log # NULL) ]_vars

\* the first command was an attack that wounded an enemy without killing it; its
\* removal callback has fired, and the enemy is still there
C34_Witness ==
  /\ cmds = 1
  /\ Pending = {}
  /\ queue = <<>>
  /\ DOMAIN units = Ids
  /\ \E e \in Ids :
       /\ team[e] = "enemy"
       /\ units[e].hp > 0
       /\ units[e].hp < initialUnits[e].hp

\* C35: at most one enemy round is in progress.  A round starts only while none is
\* running; while one runs its loop only goes forward (a hop of the enemy at hand,
\* or the next enemy), whatever isBusy, turn and the result do; the turn goes from
\* the enemy to the player only on the step that ends the round, and the step that
\* ends a round leaves the player active.
C35_OneRound ==
  /\ [][ (ai'.running /\ ai' # ai) =>
           IF ~ai.running
           THEN turn = "enemy" /\ queue = <<>> /\ log = NULL
           ELSE /\ ai'.enemies = ai.enemies
                /\ \/ ai'.i > ai.i /\ ai.phase = "rest"
                   \/ /\ ai'.i = ai.i /\ ai.phase = "hop"
                      /\ \/ ai'.phase = "hop" /\ ai'.k = ai.k + 1
                         \/ ai'.phase = "rest" /\ ai.k = Len(ai.steps) ]_vars
  /\ [][ (turn = "enemy" /\ turn' # "enemy") =>
           \/ ai.running /\ ~ai'.running /\ turn' = "player"
           \/ (units' = initialUnits /\ intro' /\ ~intro /\ log # NULL) ]_vars
  /\ [][ (ai.running /\ ~ai'.running) => turn' = "player" ]_vars

\* a round is under way at its second enemy or later, and the rest of the effect's
\* guard holds: the turn is the enemy's, the queue is empty, there is no result
C35_Witness ==
  /\ ai.running
  /\ ai.i >= 2
  /\ turn = "enemy"
  /\ queue = <<>>
  /\ log = NULL

\* C36: restarting the battle puts the registry back to the initial roster with the
\* player active, and nothing left over from the battle before (an enemy round in
\* progress, a pending commit, hop or safety snap) changes a unit's position, hp or
\* hasActed or the turn afterwards: while the intro of the new battle runs, when no
\* command of the new battle is accepted, position, hp, hasActed and turn stay.
C36_RestartClean ==
  /\ [][ (intro' /\ ~intro /\ log # NULL) =>
           units' = initialUnits /\ turn' = "player" ]_vars
  /\ [][ (intro /\ intro') =>
           /\ turn' = turn
           /\ \A id \in DOMAIN units \cap DOMAIN units' :
                /\ posOf(units', id) = posOf(units, id)
                /\ units'[id].hp = units[id].hp
                /\ units'[id].hasActed = units[id].hasActed ]_vars

\* C37: once the result is set it is neither overwritten by the other result nor
\* cleared, whatever happens to the registry, until the battle is restarted.
C37_ResultLatched ==
  [][ log # NULL =>
        \/ log' = log
        \/ (log' = NULL /\ units' = initialUnits /\ intro' /\ ~intro) ]_vars

\* the result stands after the registry went on changing: the side that lost has
\* been removed from the registry
C37_Witness ==
  \/ log = "Failure!" /\ \A id \in DOMAIN units : team[id] # "player"
  \/ log = "Victory!" /\ \A id \in DOMAIN units : team[id] # "enemy"

\* C38: after the result has been set and until the restart no enemy unit starts an
\* attack or a move, no enemy round starts and the active side does not change (the
\* enemy's turn, once the result stands in it, does not pass to the player).
C38_NothingAfterResult ==
  [][ (log # NULL /\ log' # NULL) =>
        /\ \A it \in newItems : team[it.unitId] # "enemy"
        /\ \A t \in newTimers : team[t.a] # "enemy"
        /\ ~(ai'.running /\ ~ai.running)
        /\ turn = "enemy" => turn' = "enemy" ]_vars

\* C39: if no further items are enqueued the animation queue eventually becomes empty
\* and isBusy false, under fair renders, effects and timers, although every enqueue
\* cancels the playback of the head and starts it again: either items are enqueued
\* again and again, or the queue is empty and isBusy false again and again; and once
\* nothing is left to render, flush or fire, the queue is empty.
C39_QueueDrains ==
  /\ ([]<><<aq'.next # aq.next>>_vars) \/ ([]<>(aq.q = <<>> /\ ~aq.busy))
  /\ []((aq.upd = <<>> /\ ~aq.stale /\ aq.runs = {}) => (aq.q = <<>> /\ ~aq.busy))

\* every item of the run has been enqueued and removed, the playback of a head was
\* started again at least once on the way, and the queue is empty and not busy
C39_Witness ==
  /\ aq.next = MaxItems + 1
  /\ Len(aq.removed) = MaxItems
  /\ Len(aq.played) > MaxItems
  /\ aq.q = <<>>
  /\ ~aq.busy
  /\ aq.runs = {}

\* the free cells in bounds one orthogonal step away from a cell of S
Around(S, occ) ==
  {c \in UNION {{<<s[1] + 1, s[2]>>, <<s[1] - 1, s[2]>>, <<s[1], s[2] + 1>>,
                 <<s[1], s[2] - 1>>} : s \in S} : InBounds(c) /\ c \notin occ}

\* cells at most k orthogonal steps from the cells of S along free cells in bounds
RECURSIVE Within(_, _, _)
Within(S, k, occ) ==
  IF k = 0 THEN S
  ELSE UNION {Within(T, k - 1, occ) : T \in {S \cup Around(S, occ)}}

\* C8: every cell reachable() returns is in bounds, not occupied, not the origin, and
\* at most maxSteps orthogonal steps from the origin along free cells.
C8_ReachableSound ==
  rq.done =>
    \A near \in {Within({rq.start}, rq.maxSteps, rq.occupied)} : \A c \in Range(rres) :
      /\ InBounds(c)
      /\ c \notin rq.occupied
      /\ c # rq.start
      /\ c \in near

\* a call returned a non-empty set although an occupied cell lay within the budget
C8_Witness ==
  /\ rq.done /\ rres # <<>>
  /\ \E c \in rq.occupied : cellDist(c, rq.start) <= rq.maxSteps

ScenarioA == rq.done /\ rq.start = <<0, 4>> /\ rq.maxSteps = 3 /\ rq.occupied = {}

ManhattanBall(start, lo, hi) ==
  {c \in Cells : cellDist(c, start) >= lo /\ cellDist(c, start) <= hi}

\* C9 (as stated): from (0,4) with budget 3 and no obstacles the reachable set is
\* exactly the 12 cells at Manhattan distance 1..3 inside the grid.
C9_ScenarioA_12 ==
  ScenarioA =>
    /\ Range(rres) = ManhattanBall(<<0, 4>>, 1, 3)
    /\ Cardinality(Range(rres)) = 12

\* C9 (amended): ... the reachable set is exactly the cells at Manhattan distance
\* 1..3 inside the grid, and these are 15 cells.
C9_ScenarioA_15 ==
  ScenarioA =>
    /\ Range(rres) = ManhattanBall(<<0, 4>>, 1, 3)
    /\ Cardinality(Range(rres)) = 15
    /\ Len(rres) = 15

C9_Witness == ScenarioA /\ rres # <<>>

\* the least number of orthogonal steps along free cells in bounds from start to c,
\* for a cell c that can be reached so within k steps
RECURSIVE stepsTo(_, _, _, _)
stepsTo(c, start, k, occ) ==
  IF k = 0 \/ c \notin Within({start}, k - 1, occ) THEN k
  ELSE stepsTo(c, start, k - 1, occ)

\* C29: reachable() is complete: every in-bounds cell other than the origin that a
\* path of at most maxSteps orthogonal steps over cells not in the occupied set
\* reaches is in the returned set; the set is filled in the order of the shortest
\* such paths; budget 0 yields the empty set.
C29_ReachableComplete ==
  rq.done =>
    /\ Within({rq.start}, rq.maxSteps, rq.occupied) \ {rq.start} \subseteq Range(rres)
    /\ \A i, j \in 1 .. Len(rres) :
         i < j => stepsTo(rres[i], rq.start, rq.maxSteps, rq.occupied)
                    <= stepsTo(rres[j], rq.start, rq.maxSteps, rq.occupied)
    /\ rq.maxSteps = 0 => rres = <<>>

\* a call returned a cell that only a path around an occupied cell reaches within
\* the budget
C29_Witness ==
  /\ rq.done
  /\ \E c \in Range(rres) :
       /\ cellDist(c, rq.start) < rq.maxSteps
       /\ c \notin Within({rq.start}, cellDist(c, rq.start), rq.occupied)

\* the hop into position i of a path from origin o
hopFrom(o, path, i) == IF i = 1 THEN o ELSE path[i - 1]

\* C30: the step path of a move from origin to destination has exactly
\* Manhattan(origin, destination) hops, each hop changes exactly one coordinate by
\* exactly 1, all horizontal hops precede all vertical hops, every position is within
\* the grid, the last hop lands on the destination, and one move animation of the
\* mover is enqueued per hop.
C30_StepPath ==
  rq.done =>
    /\ Len(rres) = cellDist(rq.from, rq.to)
    /\ \A i \in 1 .. Len(rres) :
         \A p \in {hopFrom(rq.from, rres, i)} :
           /\ \/ rres[i][2] = p[2] /\ abs(rres[i][1] - p[1]) = 1
              \/ rres[i][1] = p[1] /\ abs(rres[i][2] - p[2]) = 1
           /\ InBounds(rres[i])
    /\ \A i, j \in 1 .. Len(rres) :
         (i < j /\ rres[i][1] = hopFrom(rq.from, rres, i)[1])
           => rres[j][1] = hopFrom(rq.from, rres, j)[1]
    /\ rq.from # rq.to => rres[Len(rres)] = rq.to
    /\ rq.from = rq.to => rres = <<>>
    /\ Len(queue) = Len(rres)
    /\ \A i \in 1 .. Len(queue) : queue[i] = Item("move", rq.unit)

\* a path with a turn in it: hops to the left, then hops up
C30_Witness ==
  /\ rq.done
  /\ rq.to[1] < rq.from[1] - 1
  /\ rq.to[2] < rq.from[2] - 1
  /\ Len(queue) >= 4

====
